---- MODULE Spec2Model ----
(***************************************************************************)
(* Model of the code-block merge engine of pages/api/generate.js, in its   *)
(* two variants: the by-language handler (src/pages/api/generate.js) and   *)
(* the by-filename handler (src/unnamed/part_000).                         *)
(*                                                                         *)
(* A JavaScript string is a sequence of one-character strings.  The three  *)
(* regular expressions of the code are modelled by the matches the         *)
(* ECMAScript backtracking matcher finds for them (leftmost start, greedy  *)
(* \w+ and \s*, lazy [\s\S]*?), and String.prototype.replace by the        *)
(* ECMAScript GetSubstitution expansion of its replacement string.         *)
(***************************************************************************)
EXTENDS Integers, Sequences, FiniteSets, TLC

(* ------------------------------------------------------------------ *)
(* Characters and character classes                                    *)
(* ------------------------------------------------------------------ *)
NL == "\n"
(* the backtick character (U+0060), written by name *)
BT == "BACKTICK"
Fence == <<BT, BT, BT>>

UpperCase ==
  <<"A","B","C","D","E","F","G","H","I","J","K","L","M",
    "N","O","P","Q","R","S","T","U","V","W","X","Y","Z">>
LowerCase ==
  <<"a","b","c","d","e","f","g","h","i","j","k","l","m",
    "n","o","p","q","r","s","t","u","v","w","x","y","z">>
Digits == {"0","1","2","3","4","5","6","7","8","9"}
Range(q) == {q[i] : i \in DOMAIN q}
UpperSet == Range(UpperCase)
LowerSet == Range(LowerCase)

WordSet == UpperSet \cup LowerSet \cup Digits \cup {"_"}

(* \w *)
IsWord(c) == c \in WordSet
(* [\w-] *)
IsWordOrDash(c) == IsWord(c) \/ c = "-"
(* \s, which is also the set String.prototype.trim removes *)
IsSpace(c) == c \in {" ", NL, "\t", "\r"}
(* . (no s flag): anything but a line terminator *)
IsDot(c) == c \notin {NL, "\r"}

toLowerChar(c) ==
  IF c \in UpperSet
    THEN LowerCase[CHOOSE i \in DOMAIN UpperCase : UpperCase[i] = c]
    ELSE c
(* String.prototype.toLowerCase *)
toLowerCase(s) == [i \in DOMAIN s |-> toLowerChar(s[i])]
(* the character classes by name *)
InClass(cls, c) ==
  CASE cls = "w" -> IsWord(c)
    [] cls = "w-" -> IsWordOrDash(c)
    [] cls = "s" -> IsSpace(c)
    [] cls = "." -> IsDot(c)

(* two characters are the same under the regular expression flag i *)
SameCharI(a, b) == toLowerChar(a) = toLowerChar(b)

(* ------------------------------------------------------------------ *)
(* String primitives                                                   *)
(* ------------------------------------------------------------------ *)
Min(S) == CHOOSE x \in S : \A y \in S : x <= y
Max(S) == CHOOSE x \in S : \A y \in S : x >= y

(* s.slice(i-1, j-1): the characters at positions i .. j-1 (1-based) *)
Slice(s, i, j) == SubSeq(s, i, j - 1)
(* s.slice(i-1) *)
From(s, i) == SubSeq(s, i, Len(s))

(* pat occurs in s at position i *)
StartsWithAt(s, i, pat) ==
  /\ i >= 1
  /\ i + Len(pat) - 1 <= Len(s)
  /\ \A k \in 1..Len(pat) : s[i + k - 1] = pat[k]

(* pat occurs in s at position i, compared under flag i *)
StartsWithAtI(s, i, pat) ==
  /\ i >= 1
  /\ i + Len(pat) - 1 <= Len(s)
  /\ \A k \in 1..Len(pat) : SameCharI(s[i + k - 1], pat[k])

(* the first position >= from where pat occurs in s, 0 when there is none:
   where the lazy [\s\S]*? followed by pat stops *)
IndexOfFrom(s, pat, from) ==
  LET C == {i \in from..(Len(s) - Len(pat) + 1) : StartsWithAt(s, i, pat)}
  IN IF C = {} THEN 0 ELSE Min(C)

(* the position just after the maximal run of characters of class P that
   starts at position i: where a greedy P* stops *)
RunEnd(s, i, P) ==
  Min({j \in i..Len(s) : ~InClass(P, s[j])} \cup {Len(s) + 1})

(* String.prototype.trim *)
trim(s) ==
  LET K == {i \in DOMAIN s : ~IsSpace(s[i])}
  IN IF K = {} THEN <<>> ELSE SubSeq(s, Min(K), Max(K))

(* ------------------------------------------------------------------ *)
(* JavaScript values that reach the code: strings, undefined, null,    *)
(* numbers                                                             *)
(* ------------------------------------------------------------------ *)
Str(s) == [type |-> "string", str |-> s, num |-> 0]
Num(n) == [type |-> "number", str |-> <<>>, num |-> n]
Undefined == [type |-> "undefined", str |-> <<>>, num |-> 0]
Null == [type |-> "null", str |-> <<>>, num |-> 0]

(* ToBoolean *)
Truthy(v) ==
  CASE v.type = "string" -> v.str # <<>>
    [] v.type = "number" -> v.num # 0
    [] OTHER -> FALSE

(* a || b *)
OrElse(a, b) == IF Truthy(a) THEN a ELSE b

(* ------------------------------------------------------------------ *)
(* extractCodeBlocks: /```(\w+)\n([\s\S]*?)```/g                       *)
(* ------------------------------------------------------------------ *)
(* The opening of a block at position i under the class P of its language
   token: three backticks, a greedy non-empty run of P, a line feed.  The
   greedy run cannot give a character back, since the line feed it would
   leave to match is not in P.  The value is the position where the body
   starts, 0 when no opening matches at i. *)
OpenAt(s, i, P) ==
  IF ~StartsWithAt(s, i, Fence) THEN 0
  ELSE LET j == RunEnd(s, i + 3, P)
       IN IF j > i + 3 /\ j <= Len(s) /\ s[j] = NL THEN j + 1 ELSE 0

NoMatch == [index |-> 0, end |-> 0, m1 |-> <<>>, m2 |-> <<>>]

(* the last position where pat occurs in s at or after from, 0 when there
   is none: where a greedy [\s\S]* followed by pat stops *)
LastIndexOfFrom(s, pat, from) ==
  LET C == {i \in from..(Len(s) - Len(pat) + 1) : StartsWithAt(s, i, pat)}
  IN IF C = {} THEN 0 ELSE Max(C)

(* BlockMatchAt with a greedy body, which runs to the last closing fence *)
BlockMatchAtGreedy(s, i) ==
  LET b == OpenAt(s, i, "w")
      c == IF b = 0 THEN 0 ELSE LastIndexOfFrom(s, Fence, b)
  IN IF c = 0 THEN [index |-> 0, end |-> 0, m1 |-> <<>>, m2 |-> <<>>]
     ELSE [index |-> i, end |-> c + 3,
           m1 |-> Slice(s, i + 3, b - 1), m2 |-> Slice(s, b, c)]

(* the match of the block expression that starts at position i: index is
   m.index + 1, end the position after the match (regex.lastIndex + 1),
   m1 and m2 the capture groups *)
BlockMatchAt(s, i) ==
  LET b == OpenAt(s, i, "w")
      c == IF b = 0 THEN 0 ELSE IndexOfFrom(s, Fence, b)
  IN IF c = 0 THEN NoMatch
     ELSE [index |-> i, end |-> c + 3,
           m1 |-> Slice(s, i + 3, b - 1), m2 |-> Slice(s, b, c)]

(* regex.exec(markdown) with regex.lastIndex = from - 1 *)
exec(s, from) ==
  LET C == {i \in from..Len(s) : BlockMatchAt(s, i).index # 0}
  IN IF C = {} THEN NoMatch ELSE BlockMatchAt(s, Min(C))

(* the matches of the while loop, in the order exec returns them *)
RECURSIVE execAll(_, _)
execAll(s, from) ==
  LET m == exec(s, from)
  IN IF m.index = 0 THEN <<>> ELSE <<m>> \o execAll(s, m.end)

(* m[0] of a match *)
Matched(s, m) == Slice(s, m.index, m.end)

(* generate.js: blocks.push({lang, code, fullBlock}) *)
BlockOf(s, m) ==
  [lang |-> toLowerCase(m.m1), code |-> m.m2, fullBlock |-> Matched(s, m)]

(* generate.js extractCodeBlocks(markdown), markdown any value *)
extractCodeBlocks(markdown) ==
  IF ~Truthy(markdown) \/ markdown.type # "string" THEN <<>>
  ELSE LET ms == execAll(markdown.str, 1)
       IN [k \in 1..Len(ms) |-> BlockOf(markdown.str, ms[k])]

(* code.match(/file:\s*(.+)\n/i) tried at position p: the capture group,
   as the set of its (first, last+1) positions; \s* is greedy and gives
   characters back one at a time, .+ is greedy and cannot give any back *)
FileCaptureAt(code, p) ==
  IF ~StartsWithAtI(code, p, <<"f","i","l","e",":">>) THEN {}
  ELSE LET sEnd == RunEnd(code, p + 5, "s")
           Q == {q \in (p + 5)..sEnd :
                   LET e == RunEnd(code, q, ".")
                   IN e > q /\ e <= Len(code) /\ code[e] = NL}
       IN IF Q = {} THEN {} ELSE {<<Max(Q), RunEnd(code, Max(Q), ".")>>}

(* fileMatch ? fileMatch[1].trim() : null *)
FilenameOf(code) ==
  LET C == {p \in 1..Len(code) : FileCaptureAt(code, p) # {}}
  IN IF C = {} THEN Null
     ELSE LET cap == CHOOSE c \in FileCaptureAt(code, Min(C)) : TRUE
          IN Str(trim(Slice(code, cap[1], cap[2])))

(* part_000: blocks.push({lang, code, filename, fullBlock}) *)
BlockOfF(s, m) ==
  [lang |-> toLowerCase(m.m1), code |-> m.m2,
   filename |-> FilenameOf(m.m2), fullBlock |-> Matched(s, m)]

(* part_000 extractCodeBlocks(markdown) *)
extractCodeBlocksF(markdown) ==
  IF ~Truthy(markdown) \/ markdown.type # "string" THEN <<>>
  ELSE LET ms == execAll(markdown.str, 1)
       IN [k \in 1..Len(ms) |-> BlockOfF(markdown.str, ms[k])]

(* ------------------------------------------------------------------ *)
(* String.prototype.replace(regex, newBlock)                           *)
(* ------------------------------------------------------------------ *)
(* GetSubstitution for an expression without capture groups: in the
   replacement text $$ is a dollar sign, $& the matched text, $ followed
   by a backtick the text before the match, $' the text after it; $ before
   a digit or anything else stands for itself *)
RECURSIVE GetSubstitution(_, _, _, _, _)
GetSubstitution(repl, k, matched, before, after) ==
  IF k > Len(repl) THEN <<>>
  ELSE IF repl[k] = "$" /\ k < Len(repl) /\ repl[k + 1] \in {"$", "&", BT, "'"}
    THEN (CASE repl[k + 1] = "$" -> <<"$">>
            [] repl[k + 1] = "&" -> matched
            [] repl[k + 1] = BT -> before
            [] repl[k + 1] = "'" -> after)
         \o GetSubstitution(repl, k + 2, matched, before, after)
    ELSE <<repl[k]>> \o GetSubstitution(repl, k + 1, matched, before, after)

(* base.replace(regex, newBlock) for the match [index, end) of a regex
   without the g flag *)
ReplaceMatch(base, index, end, newBlock) ==
  LET before == Slice(base, 1, index)
      after == From(base, end)
  IN before \o GetSubstitution(newBlock, 1, Slice(base, index, end), before, after)
            \o after

(* ------------------------------------------------------------------ *)
(* generate.js replaceFirstCodeBlockByLang                             *)
(* ------------------------------------------------------------------ *)
(* LangMatchEnd with a greedy body, which runs to the last closing fence *)
LangMatchEndGreedy(base, i, lang) ==
  IF /\ StartsWithAt(base, i, Fence)
     /\ StartsWithAtI(base, i + 3, lang)
     /\ StartsWithAt(base, i + 3 + Len(lang), <<NL>>)
  THEN LET c == LastIndexOfFrom(base, Fence, i + 3 + Len(lang) + 1)
       IN IF c = 0 THEN 0 ELSE c + 3
  ELSE 0

(* new RegExp("```" + lang + "\\n[\\s\\S]*?```", "i") tried at position i:
   the position after the match, 0 when there is none.  lang is a block's
   lang, made of \w characters, so it stands for itself in the pattern. *)
LangMatchEnd(base, i, lang) ==
  IF /\ StartsWithAt(base, i, Fence)
     /\ StartsWithAtI(base, i + 3, lang)
     /\ StartsWithAt(base, i + 3 + Len(lang), <<NL>>)
  THEN LET c == IndexOfFrom(base, Fence, i + 3 + Len(lang) + 1)
       IN IF c = 0 THEN 0 ELSE c + 3
  ELSE 0

replaceFirstCodeBlockByLang(base, lang, newBlock) ==
  LET C == {i \in 1..Len(base) : LangMatchEnd(base, i, lang) # 0}
  IN IF C # {}
       THEN [updated |-> ReplaceMatch(base, Min(C), LangMatchEnd(base, Min(C), lang), newBlock),
             replaced |-> TRUE]
       ELSE [updated |-> base, replaced |-> FALSE]

(* ------------------------------------------------------------------ *)
(* part_000 replaceBlockByFilename                                     *)
(* ------------------------------------------------------------------ *)
(* the characters of the class [.*+?^${}()|[\]\\] *)
RegExpSpecial == {".", "*", "+", "?", "^", "$", "{", "}", "(", ")", "|", "[", "]", "\\"}

(* filename.replace(/[.*+?^${}()|[\]\\]/g, "\\$&"): a backslash before
   every special character *)
RECURSIVE escapeRegExp(_)
escapeRegExp(f) ==
  IF f = <<>> THEN <<>>
  ELSE (IF Head(f) \in RegExpSpecial THEN <<"\\", Head(f)>> ELSE <<Head(f)>>)
       \o escapeRegExp(Tail(f))

(* the atoms of the pattern text the escaped filename contributes: a
   backslash and a special character are that character, a bare dot is any
   character but a line terminator, any other character is itself *)
RECURSIVE PatternAtoms(_)
PatternAtoms(pt) ==
  IF pt = <<>> THEN <<>>
  ELSE IF Head(pt) = "\\" /\ Len(pt) >= 2
    THEN <<[any |-> FALSE, ch |-> pt[2]]>> \o PatternAtoms(Tail(Tail(pt)))
    ELSE <<[any |-> Head(pt) = ".", ch |-> Head(pt)]>> \o PatternAtoms(Tail(pt))

(* the atoms match in s at position i, under flag i *)
AtomsMatchAt(s, i, atoms) ==
  /\ i + Len(atoms) - 1 <= Len(s)
  /\ \A k \in 1..Len(atoms) :
       IF atoms[k].any THEN IsDot(s[i + k - 1])
       ELSE SameCharI(s[i + k - 1], atoms[k].ch)

(* file:\s*<filename>[\s\S]*?``` tried at position p: the position after
   the match, 0 when there is none; the greedy \s* gives characters back
   until the filename and a later closing fence match *)
MarkerMatchEnd(s, p, atoms) ==
  IF ~StartsWithAtI(s, p, <<"f","i","l","e",":">>) THEN 0
  ELSE LET sEnd == RunEnd(s, p + 5, "s")
           Q == {q \in (p + 5)..sEnd :
                   /\ AtomsMatchAt(s, q, atoms)
                   /\ IndexOfFrom(s, Fence, q + Len(atoms)) # 0}
       IN IF Q = {} THEN 0
          ELSE IndexOfFrom(s, Fence, Max(Q) + Len(atoms)) + 3

(* the whole expression
   ```[\w-]+\n[\s\S]*?file:\s*<filename>[\s\S]*?``` (flag i) tried at
   position i: the lazy [\s\S]*? after the opening stops at the first
   position where the rest matches, wherever that is in the text *)
FileMatchEnd(base, i, atoms) ==
  LET b == OpenAt(base, i, "w-")
      P == IF b = 0 THEN {}
           ELSE {p \in b..Len(base) : MarkerMatchEnd(base, p, atoms) # 0}
  IN IF P = {} THEN 0 ELSE MarkerMatchEnd(base, Min(P), atoms)

replaceBlockByFilename(base, filename, newBlock) ==
  IF ~Truthy(filename) THEN [updated |-> base, replaced |-> FALSE]
  ELSE LET atoms == PatternAtoms(escapeRegExp(filename.str))
           C == {i \in 1..Len(base) : FileMatchEnd(base, i, atoms) # 0}
       IN IF C # {}
            THEN [updated |-> ReplaceMatch(base, Min(C), FileMatchEnd(base, Min(C), atoms), newBlock),
                  replaced |-> TRUE]
            ELSE [updated |-> base, replaced |-> FALSE]

(* ------------------------------------------------------------------ *)
(* The loop bodies of the two handlers                                 *)
(* ------------------------------------------------------------------ *)
(* newFullBlock without the line feed before the closing fence *)
newFullBlockNoLineFeed(blk) == Fence \o blk.lang \o <<NL>> \o blk.code \o Fence

(* "```" + lang + "\n" + blk.code + "\n```" *)
newFullBlock(blk) == Fence \o blk.lang \o <<NL>> \o blk.code \o <<NL>> \o Fence

(* "\n\n" + newFullBlock *)
Appended(merged, blk) == merged \o <<NL, NL>> \o newFullBlock(blk)

(* replacedLangs[lang] = true: Object.keys keeps the insertion order *)
SetKey(keys, lang) == IF lang \in Range(keys) THEN keys ELSE Append(keys, lang)

(* NotYetReplaced without the bookkeeping: every block tries to replace *)
AlwaysTryReplace(keys, lang) == TRUE

(* generate.js: if (!replacedLangs[lang]) *)
NotYetReplaced(keys, lang) == lang \notin Range(keys)

(* generate.js: one iteration of for (const blk of aiBlocks) *)
LangStep(merged, keys, blk) ==
  LET r == replaceFirstCodeBlockByLang(merged, blk.lang, newFullBlock(blk))
  IN IF NotYetReplaced(keys, blk.lang) /\ r.replaced
       THEN [merged |-> r.updated, keys |-> SetKey(keys, blk.lang), replaced |-> TRUE]
       ELSE [merged |-> Appended(merged, blk), keys |-> SetKey(keys, blk.lang),
             replaced |-> FALSE]

(* part_000: one iteration of for (const blk of aiBlocks) *)
FileStep(merged, blk) ==
  LET rep == IF Truthy(blk.filename)
               THEN replaceBlockByFilename(merged, blk.filename, newFullBlock(blk))
               ELSE [updated |-> merged, replaced |-> FALSE]
  IN IF rep.replaced
       THEN [merged |-> rep.updated, replaced |-> TRUE]
       ELSE [merged |-> Appended(rep.updated, blk), replaced |-> FALSE]

(* ------------------------------------------------------------------ *)
(* Inputs: request bodies and model outputs                            *)
(* ------------------------------------------------------------------ *)
MaxPrevBlocks == 2
MaxNewBlocks == 2

(* A text is written as a sequence of parts: a fenced block followed by a
   tail, or plain text. *)
Block(lang, code, tail) == [kind |-> "block", lang |-> lang, code |-> code, tail |-> tail]
Text(t) == [kind |-> "text", lang |-> <<>>, code |-> <<>>, tail |-> t]

RenderPart(p) ==
  IF p.kind = "block" THEN Fence \o p.lang \o <<NL>> \o p.code \o Fence \o p.tail
  ELSE p.tail

RECURSIVE Render(_)
Render(parts) ==
  IF parts = <<>> THEN <<>> ELSE RenderPart(Head(parts)) \o Render(Tail(parts))

SeqsUpTo(S, n) == UNION {[1..k -> S] : k \in 0..n}

js == <<"j", "s">>
JSu == <<"J", "S">>
html == <<"h", "t", "m", "l">>
aJs == <<"a", ".", "j", "s">>
aJsx == <<"a", ".", "j", "s", "x">>
bJs == <<"b", ".", "j", "s">>
(* the first line the prompt of part_000 asks for: // file: <name> *)
Marker(f) == <<"/", "/", " ", "f", "i", "l", "e", ":", " ">> \o f \o <<NL>>

(* previous texts of the by-language handler: a js block, an html block
   with nothing after its closing fence, a block whose language is written
   in upper case, and text that is no block (a word, a line break and a
   lone fence) *)
PrevPartsLang ==
  { Block(js, <<"A", NL>>, <<NL, NL>>),
    Block(html, <<"B", NL>>, <<>>),
    Block(JSu, <<"C", NL>>, <<NL>>),
    Text(js \o <<NL, "D", NL>> \o Fence) }

(* blocks the model returns to the by-language handler *)
NewPartsLang ==
  { Block(js, <<"N", NL>>, <<NL>>),
    Block(html, <<"M", NL>>, <<NL>>),
    Block(js, <<"$", "&", NL>>, <<NL>>),
    Block(JSu, <<"$", "'", NL>>, <<>>) }

(* previous texts of the by-filename handler *)
PrevPartsFile ==
  { Block(js, Marker(aJs) \o <<"A", NL>>, <<NL>>),
    Block(js, Marker(aJsx) \o <<"B", NL>>, <<NL>>),
    Block(js, Marker(bJs) \o <<"C", NL>>, <<NL>>) }

(* blocks the model returns to the by-filename handler *)
NewPartsFile ==
  { Block(js, Marker(aJs) \o <<"N", NL>>, <<NL>>),
    Block(js, Marker(bJs) \o <<"M", NL>>, <<NL>>),
    Block(js, <<"P", NL>>, <<NL>>) }

PrevParts(v) == IF v = "lang" THEN PrevPartsLang ELSE PrevPartsFile
NewParts(v) == IF v = "lang" THEN NewPartsLang ELSE NewPartsFile

(* what the model may answer: blocks, text without a fence, blank text,
   the empty string *)
ModelAnswers(v) ==
  SeqsUpTo(NewParts(v), MaxNewBlocks)
    \cup {<<Text(<<"o", "k", ".">>)>>, <<Text(<<" ", NL>>)>>}

Prompts == {Undefined, Str(<<>>), Str(<<"g", "o">>), Num(7)}
Methods == {"POST", "GET"}

(* STATE ------------------------------------------------------------ *)
(* One request to one of the two handlers                              *)
(* ------------------------------------------------------------------ *)
VARIABLES
  variant,        \* "lang": generate.js, "file": part_000
  pc,             \* where the handler is
  method,         \* req.method
  prompt,         \* req.body.prompt
  previousCode,   \* req.body.previousCode
  prevParts,      \* the parts previousCode was written as
  modelCalls,     \* how many times generateContent was invoked
  fullOutput,     \* the content the model returned
  aiParts,        \* the parts the model's content was written as
  aiBlocks,       \* extractCodeBlocks(fullOutput)
  baseBlocks,     \* extractCodeBlocks(previousCode)
  idx,            \* the block the loop is at
  merged,         \* let merged
  replacedLangs,  \* the keys of const replacedLangs
  log,            \* what each iteration of the loop did
  status,         \* res.status(...), 0 before the response
  response        \* the body of the 200 response

vars == <<variant, pc, method, prompt, previousCode, prevParts, modelCalls,
          fullOutput, aiParts, aiBlocks, baseBlocks, idx, merged,
          replacedLangs, log, status, response>>

NoResponse == [output |-> <<>>, aiRaw |-> <<>>, aiBlocksCount |-> 0, replacedLangs |-> <<>>]

Idle ==
  /\ modelCalls = 0
  /\ fullOutput = Undefined
  /\ aiParts = <<>>
  /\ aiBlocks = <<>>
  /\ baseBlocks = <<>>
  /\ idx = 0
  /\ merged = <<>>
  /\ replacedLangs = <<>>
  /\ log = <<>>
  /\ status = 0
  /\ response = NoResponse

Init ==
  /\ variant \in {"lang", "file"}
  /\ pc = "start"
  /\ method \in Methods
  /\ prompt \in Prompts
  /\ \/ /\ prevParts \in SeqsUpTo(PrevParts(variant), MaxPrevBlocks)
        /\ previousCode = Str(Render(prevParts))
     \/ /\ prevParts = <<>>
        /\ previousCode = Undefined
  /\ Idle

Respond(code) ==
  /\ status' = code
  /\ pc' = "done"

(* both handlers: if (req.method !== "POST") return res.status(405) *)
MethodNotAllowed ==
  /\ pc = "start"
  /\ method # "POST"
  /\ Respond(405)
  /\ UNCHANGED <<variant, method, prompt, previousCode, prevParts, modelCalls,
                 fullOutput, aiParts, aiBlocks, baseBlocks, idx, merged,
                 replacedLangs, log, response>>

(* generate.js: if (!prompt || typeof prompt !== "string")
   part_000:    if (!prompt) *)
InvalidPrompt(v, p) ==
  IF v = "lang" THEN ~Truthy(p) \/ p.type # "string" ELSE ~Truthy(p)

RejectPrompt ==
  /\ pc = "start"
  /\ method = "POST"
  /\ InvalidPrompt(variant, prompt)
  /\ Respond(400)
  /\ UNCHANGED <<variant, method, prompt, previousCode, prevParts, modelCalls,
                 fullOutput, aiParts, aiBlocks, baseBlocks, idx, merged,
                 replacedLangs, log, response>>

(* the prompt passes the check; the instruction text is built *)
AcceptPrompt ==
  /\ pc = "start"
  /\ method = "POST"
  /\ ~InvalidPrompt(variant, prompt)
  /\ pc' = "call"
  /\ UNCHANGED <<variant, method, prompt, previousCode, prevParts, modelCalls,
                 fullOutput, aiParts, aiBlocks, baseBlocks, idx, merged,
                 replacedLangs, log, status, response>>

(* await generateContent(...) raises: catch (err) answers 500 *)
ModelThrows ==
  /\ pc = "call"
  /\ modelCalls' = modelCalls + 1
  /\ Respond(500)
  /\ UNCHANGED <<variant, method, prompt, previousCode, prevParts,
                 fullOutput, aiParts, aiBlocks, baseBlocks, idx, merged,
                 replacedLangs, log, response>>

(* await generateContent(...) returns a result without candidates *)
ModelReturnsNothing ==
  /\ pc = "call"
  /\ modelCalls' = modelCalls + 1
  /\ fullOutput' = Undefined
  /\ aiParts' = <<>>
  /\ pc' = "received"
  /\ UNCHANGED <<variant, method, prompt, previousCode, prevParts,
                 aiBlocks, baseBlocks, idx, merged,
                 replacedLangs, log, status, response>>

(* await generateContent(...) returns candidates[0].content, a text *)
ModelReturnsText ==
  /\ pc = "call"
  /\ modelCalls' = modelCalls + 1
  /\ \E ps \in ModelAnswers(variant) :
       /\ aiParts' = ps
       /\ fullOutput' = Str(Render(ps))
  /\ pc' = "received"
  /\ UNCHANGED <<variant, method, prompt, previousCode, prevParts,
                 aiBlocks, baseBlocks, idx, merged,
                 replacedLangs, log, status, response>>

(* generate.js: content ?? ... ?? "";  part_000: content || "" *)
OutputText(content) == IF content.type = "string" THEN content ELSE Str(<<>>)

(* generate.js: !fullOutput || fullOutput.trim() === ""
   part_000:    !output.trim() *)
IsBlank(out) == ~Truthy(out) \/ trim(out.str) = <<>>

(* return res.status(500).json({error: "AI returned empty output"}) *)
EmptyOutput ==
  /\ pc = "received"
  /\ IsBlank(OutputText(fullOutput))
  /\ Respond(500)
  /\ UNCHANGED <<variant, method, prompt, previousCode, prevParts, modelCalls,
                 fullOutput, aiParts, aiBlocks, baseBlocks, idx, merged,
                 replacedLangs, log, response>>

(* previousCode || "" *)
PreviousText(prev) == OrElse(prev, Str(<<>>))

(* generate.js lines 102-110, part_000 lines 80-81 *)
StartMerge ==
  /\ pc = "received"
  /\ ~IsBlank(OutputText(fullOutput))
  /\ aiBlocks' = IF variant = "lang" THEN extractCodeBlocks(OutputText(fullOutput))
                 ELSE extractCodeBlocksF(OutputText(fullOutput))
  /\ baseBlocks' = IF variant = "lang" THEN extractCodeBlocks(PreviousText(previousCode))
                   ELSE <<>>
  /\ merged' = PreviousText(previousCode).str
  /\ replacedLangs' = <<>>
  /\ idx' = 1
  /\ pc' = "loop"
  /\ UNCHANGED <<variant, method, prompt, previousCode, prevParts, modelCalls,
                 fullOutput, aiParts, log, status, response>>

LogEntry(blk, replaced, before, after) ==
  [blk |-> blk, replaced |-> replaced, before |-> before, after |-> after]

(* generate.js: one iteration of the loop of lines 111-129 *)
MergeByLang ==
  /\ pc = "loop"
  /\ variant = "lang"
  /\ idx <= Len(aiBlocks)
  /\ LET r == LangStep(merged, replacedLangs, aiBlocks[idx])
     IN /\ merged' = r.merged
        /\ replacedLangs' = r.keys
        /\ log' = Append(log, LogEntry(aiBlocks[idx], r.replaced, merged, r.merged))
  /\ idx' = idx + 1
  /\ UNCHANGED <<variant, pc, method, prompt, previousCode, prevParts, modelCalls,
                 fullOutput, aiParts, aiBlocks, baseBlocks, status, response>>

(* part_000: one iteration of the loop of lines 83-94 *)
MergeByFilename ==
  /\ pc = "loop"
  /\ variant = "file"
  /\ idx <= Len(aiBlocks)
  /\ LET r == FileStep(merged, aiBlocks[idx])
     IN /\ merged' = r.merged
        /\ log' = Append(log, LogEntry(aiBlocks[idx], r.replaced, merged, r.merged))
  /\ idx' = idx + 1
  /\ UNCHANGED <<variant, pc, method, prompt, previousCode, prevParts, modelCalls,
                 fullOutput, aiParts, aiBlocks, baseBlocks, replacedLangs,
                 status, response>>

(* if (!aiHasCode) merged += "\n\n" + fullOutput *)
WithFallback(m, blocks, out) ==
  IF Len(blocks) = 0 THEN m \o <<NL, NL>> \o out.str ELSE m

(* the loop is over: the fallback, then res.status(200).json({...});
   part_000 reports no replacedLangs *)
Finish ==
  /\ pc = "loop"
  /\ idx > Len(aiBlocks)
  /\ merged' = WithFallback(merged, aiBlocks, OutputText(fullOutput))
  /\ response' = [output |-> merged',
                  aiRaw |-> OutputText(fullOutput).str,
                  aiBlocksCount |-> Len(aiBlocks),
                  replacedLangs |-> replacedLangs]
  /\ Respond(200)
  /\ UNCHANGED <<variant, method, prompt, previousCode, prevParts, modelCalls,
                 fullOutput, aiParts, aiBlocks, baseBlocks, idx,
                 replacedLangs, log>>

Next ==
  \/ MethodNotAllowed
  \/ RejectPrompt
  \/ AcceptPrompt
  \/ ModelThrows
  \/ ModelReturnsNothing
  \/ ModelReturnsText
  \/ EmptyOutput
  \/ StartMerge
  \/ MergeByLang
  \/ MergeByFilename
  \/ Finish

Spec == Init /\ [][Next]_vars

(* ------------------------------------------------------------------ *)
(* extractCodeBlocks on its own: any value as its argument             *)
(* ------------------------------------------------------------------ *)
AllParts == PrevPartsLang \cup NewPartsLang \cup PrevPartsFile \cup NewPartsFile
              \cup {Text(<<"o", "k", ".">>), Block(html, <<"B", NL>>, js \o <<NL>>)}

NonStrings == {Undefined, Null, Num(0), Num(7)}

InitExtract ==
  /\ variant \in {"lang", "file"}
  /\ pc = "extract"
  /\ method = "POST"
  /\ prompt = Undefined
  /\ previousCode = Undefined
  /\ prevParts = <<>>
  /\ modelCalls = 0
  /\ \/ /\ aiParts \in SeqsUpTo(AllParts, MaxPrevBlocks)
        /\ fullOutput = Str(Render(aiParts))
     \/ /\ aiParts = <<>>
        /\ fullOutput \in NonStrings
  /\ aiBlocks = <<>>
  /\ baseBlocks = <<>>
  /\ idx = 0
  /\ merged = <<>>
  /\ replacedLangs = <<>>
  /\ log = <<>>
  /\ status = 0
  /\ response = NoResponse

(* generate.js: extractCodeBlocks(markdown) *)
ExtractLang ==
  /\ pc = "extract"
  /\ variant = "lang"
  /\ aiBlocks' = extractCodeBlocks(fullOutput)
  /\ pc' = "extracted"
  /\ UNCHANGED <<variant, method, prompt, previousCode, prevParts, modelCalls,
                 fullOutput, aiParts, baseBlocks, idx, merged,
                 replacedLangs, log, status, response>>

(* part_000: extractCodeBlocks(markdown) *)
ExtractFile ==
  /\ pc = "extract"
  /\ variant = "file"
  /\ aiBlocks' = extractCodeBlocksF(fullOutput)
  /\ pc' = "extracted"
  /\ UNCHANGED <<variant, method, prompt, previousCode, prevParts, modelCalls,
                 fullOutput, aiParts, baseBlocks, idx, merged,
                 replacedLangs, log, status, response>>

NextExtract == ExtractLang \/ ExtractFile

SpecExtract == InitExtract /\ [][NextExtract]_vars

(* ------------------------------------------------------------------ *)
(* Properties                                                          *)
(* ------------------------------------------------------------------ *)
(* a part is a well-formed fenced block followed by text without
   backticks, or text without backticks: the language is a non-empty
   word, and the first closing fence after the body is the block's own *)
WellFormedPart(p) ==
  /\ BT \notin Range(p.tail)
  /\ p.kind = "block" =>
       /\ p.lang # <<>>
       /\ \A c \in Range(p.lang) : IsWord(c)
       /\ IndexOfFrom(p.code \o Fence, Fence, 1) = Len(p.code) + 1

WellFormed(parts) == \A k \in DOMAIN parts : WellFormedPart(parts[k])

(* a text made of well-formed blocks: nothing but white space between and
   after them *)
BlocksOnly(parts) ==
  \A k \in DOMAIN parts :
    /\ parts[k].kind = "block"
    /\ WellFormedPart(parts[k])
    /\ \A c \in Range(parts[k].tail) : IsSpace(c)

RECURSIVE BlockParts(_)
BlockParts(parts) ==
  IF parts = <<>> THEN <<>>
  ELSE (IF Head(parts).kind = "block" THEN <<Head(parts)>> ELSE <<>>)
       \o BlockParts(Tail(parts))

(* the block as it is written in the text, without its tail *)
RawSpan(p) == Fence \o p.lang \o <<NL>> \o p.code \o Fence

HasFence(t) == IndexOfFrom(t, Fence, 1) # 0

IsLowerOf(l, token) ==
  /\ Len(l) = Len(token)
  /\ \A i \in DOMAIN l : l[i] \notin UpperSet /\ SameCharI(l[i], token[i])

(* C5: extractCodeBlocks returns the empty sequence for a value that is
   absent or no string and for a text without a fence, and for a text of N
   well-formed blocks exactly those N blocks in their order, each with its
   language in lower case, its body the text between its fences, and its
   raw span its own. *)
C5_ExtractTotalInOrder ==
  pc = "extracted" =>
    /\ (fullOutput.type # "string" \/ ~HasFence(fullOutput.str)) => aiBlocks = <<>>
    /\ (fullOutput.type = "string" /\ WellFormed(aiParts)) =>
         LET bs == BlockParts(aiParts)
         IN /\ Len(aiBlocks) = Len(bs)
            /\ \A k \in DOMAIN bs :
                 /\ IsLowerOf(aiBlocks[k].lang, bs[k].lang)
                 /\ aiBlocks[k].code = bs[k].code
                 /\ aiBlocks[k].fullBlock = RawSpan(bs[k])

(* two adjacent blocks, the first with an upper-case language, were
   extracted as two *)
C5_Witness ==
  /\ pc = "extracted"
  /\ WellFormed(aiParts)
  /\ Len(aiParts) = 2
  /\ aiParts[1].kind = "block" /\ aiParts[1].tail = <<>> /\ aiParts[1].lang = JSu
  /\ aiParts[2].kind = "block"
  /\ Len(aiBlocks) = 2
  /\ aiBlocks[1].lang = js

(* the text with the span of match m replaced by the text t *)
Substitute(doc, m, t) == Slice(doc, 1, m.index) \o t \o From(doc, m.end)

(* C4 as stated: re-serializing an extracted block and putting it in the
   place of its raw span gives the text back. *)
C4_RoundTrip ==
  (pc = "extracted" /\ fullOutput.type = "string") =>
    LET ms == execAll(fullOutput.str, 1)
    IN \A k \in DOMAIN aiBlocks :
         Substitute(fullOutput.str, ms[k], newFullBlock(aiBlocks[k])) = fullOutput.str

(* C4 as amended: re-serializing an extracted block and putting it in the
   place of its raw span gives the text back with the block's language in
   lower case and one more line feed before its closing fence. *)
C4_RoundTripAddsLineFeed ==
  (pc = "extracted" /\ fullOutput.type = "string") =>
    LET doc == fullOutput.str
        ms == execAll(doc, 1)
    IN \A k \in DOMAIN aiBlocks :
         LET tokenStart == ms[k].index + 3
             tokenEnd == tokenStart + Len(aiBlocks[k].lang)
             closeStart == ms[k].end - 3
         IN /\ tokenEnd < closeStart
            /\ Substitute(doc, ms[k], newFullBlock(aiBlocks[k]))
                 = Slice(doc, 1, tokenStart)
                     \o toLowerCase(Slice(doc, tokenStart, tokenEnd))
                     \o Slice(doc, tokenEnd, closeStart)
                     \o <<NL>>
                     \o From(doc, closeStart)

(* a block written with an upper-case language was extracted *)
C4_Witness ==
  /\ pc = "extracted"
  /\ fullOutput.type = "string"
  /\ \E k \in DOMAIN aiBlocks :
       /\ aiBlocks[k].lang = js
       /\ StartsWithAt(aiBlocks[k].fullBlock, 4, JSu)

(* ------------------------------------------------------------------ *)
(* Properties of the merge                                             *)
(* ------------------------------------------------------------------ *)
(* the texts occur in the text one after the other, without overlap *)
RECURSIVE OccurInOrder(_, _, _)
OccurInOrder(text, spans, from) ==
  IF spans = <<>> THEN TRUE
  ELSE LET i == IndexOfFrom(text, Head(spans), from)
       IN i # 0 /\ OccurInOrder(text, Tail(spans), i + Len(Head(spans)))

(* a is b with some elements left out *)
RECURSIVE IsSubsequence(_, _)
IsSubsequence(a, b) ==
  IF a = <<>> THEN TRUE
  ELSE IF b = <<>> THEN FALSE
  ELSE IF Head(a) = Head(b) THEN IsSubsequence(Tail(a), Tail(b))
  ELSE IsSubsequence(a, Tail(b))

AiLangs == {aiBlocks[j].lang : j \in DOMAIN aiBlocks}

RECURSIVE UntouchedSpans(_, _)
UntouchedSpans(parts, langs) ==
  IF parts = <<>> THEN <<>>
  ELSE (IF Head(parts).kind = "block" /\ toLowerCase(Head(parts).lang) \notin langs
          THEN <<RawSpan(Head(parts))>> ELSE <<>>)
       \o UntouchedSpans(Tail(parts), langs)

FullBlocks(bs) == [k \in DOMAIN bs |-> bs[k].fullBlock]

Merging == pc = "loop" \/ (pc = "done" /\ status = 200)

(* C1: in the by-language merge of a previous text made of well-formed
   blocks, every existing block whose language is the language of no new block is
   still in the merged text, its raw span unchanged and still a block, in
   the same relative order. *)
C1_OtherLanguagesKept ==
  (variant = "lang" /\ Merging /\ BlocksOnly(prevParts)) =>
    LET kept == UntouchedSpans(prevParts, AiLangs)
    IN /\ OccurInOrder(merged, kept, 1)
       /\ IsSubsequence(kept, FullBlocks(extractCodeBlocks(Str(merged))))

(* a js block followed by an html block, one new js block: the js block
   was replaced and the html block is there *)
C1_Witness ==
  /\ variant = "lang"
  /\ pc = "done" /\ status = 200
  /\ BlocksOnly(prevParts)
  /\ Len(prevParts) = 2
  /\ prevParts[1].kind = "block" /\ prevParts[1].lang = js
  /\ prevParts[2].kind = "block" /\ prevParts[2].lang = html
  /\ Len(aiBlocks) = 1 /\ aiBlocks[1].lang = js
  /\ log[1].replaced
  /\ UntouchedSpans(prevParts, AiLangs) = <<RawSpan(prevParts[2])>>

Suffix(t, n) == From(t, Len(t) - n + 1)

(* C2: in one by-language merge at most one existing block per language is
   replaced; with two existing blocks and two new blocks of a language, the
   first new block takes the place of the first existing block, everything
   before and after that block stays, the second new block is appended at
   the end, and the second existing block is still there. *)
C2_FirstMatchOnly ==
  /\ variant = "lang" =>
       \A i, j \in DOMAIN log :
         (i < j /\ log[i].replaced /\ log[j].replaced)
           => log[i].blk.lang # log[j].blk.lang
  /\ (variant = "lang" /\ pc = "done" /\ status = 200 /\ BlocksOnly(prevParts)) =>
       \A L \in AiLangs :
         LET bs == BlockParts(prevParts)
             I == {i \in DOMAIN aiBlocks : aiBlocks[i].lang = L}
             K == {k \in DOMAIN bs : toLowerCase(bs[k].lang) = L}
         IN (Cardinality(I) = 2 /\ Cardinality(K) = 2) =>
              LET e1 == log[Min(I)]
                  e2 == log[Max(I)]
                  raw1 == RawSpan(bs[Min(K)])
                  raw2 == RawSpan(bs[Max(K)])
                  pos1 == IndexOfFrom(e1.before, raw1, 1)
                  post == From(e1.before, pos1 + Len(raw1))
              IN /\ e1.replaced
                 /\ pos1 # 0
                 /\ Slice(e1.after, 1, pos1) = Slice(e1.before, 1, pos1)
                 /\ Len(e1.after) >= pos1 - 1 + Len(post)
                 /\ Suffix(e1.after, Len(post)) = post
                 /\ IndexOfFrom(post, raw2, 1) # 0
                 /\ ~e2.replaced
                 /\ e2.after = e2.before \o <<NL, NL>> \o newFullBlock(e2.blk)
                 /\ IndexOfFrom(merged, raw2, pos1) # 0

(* two existing js blocks, two new js blocks: one replaced, one appended *)
C2_Witness ==
  /\ variant = "lang"
  /\ pc = "done" /\ status = 200
  /\ BlocksOnly(prevParts)
  /\ Len(prevParts) = 2
  /\ \A k \in 1..2 : toLowerCase(prevParts[k].lang) = js
  /\ Len(aiBlocks) = 2
  /\ \A k \in 1..2 : aiBlocks[k].lang = js
  /\ log[1].replaced
  /\ ~log[2].replaced

(* C3 as stated: in the by-filename merge a new block replaces an existing
   block only when that block's filename marker is the new block's
   filename; a new block whose filename is the marker of no existing block,
   or that has no filename, is appended and nothing else changes. *)
C3_ExactFilenameMatch ==
  variant = "file" =>
    \A k \in DOMAIN log :
      LET e == log[k]
          existing == extractCodeBlocksF(Str(e.before))
          hit == /\ Truthy(e.blk.filename)
                 /\ \E n \in DOMAIN existing : existing[n].filename = e.blk.filename
      IN /\ e.replaced => hit
         /\ ~hit => e.after = e.before \o <<NL, NL>> \o newFullBlock(e.blk)

(* C6 as stated: the replacedLangs of the response holds a language
   exactly when a new block of that language replaced an existing block in
   this call. *)
C6_ReplacedLangsAreReplaced ==
  (variant = "lang" /\ pc = "done" /\ status = 200) =>
    \A L \in AiLangs \cup Range(response.replacedLangs) :
      (L \in Range(response.replacedLangs))
        <=> (\E k \in DOMAIN log : log[k].replaced /\ log[k].blk.lang = L)

(* C7 as stated: whenever a new block replaces a span of the text, the text
   put in its place is the new fenced block, character for character. *)
C7_VerbatimReplacement ==
  \A k \in DOMAIN log :
    LET e == log[k]
        t == newFullBlock(e.blk)
    IN e.replaced =>
         \E i \in 1..Len(e.before) :
           /\ StartsWithAt(e.before, i, Fence)
           /\ \E j \in (i + 1)..(Len(e.before) + 1) :
                /\ StartsWithAt(e.before, j - 3, Fence)
                /\ e.after = Slice(e.before, 1, i) \o t \o From(e.before, j)

(* C8 as stated: when a new block replaces by filename, the span taken out
   of the text is the raw span of one existing block, and all the text
   before and after that block stays. *)
C8_OneBlockReplaced ==
  variant = "file" =>
    \A k \in DOMAIN log :
      LET e == log[k]
          ms == execAll(e.before, 1)
      IN e.replaced =>
           \E n \in DOMAIN ms :
             LET post == From(e.before, ms[n].end)
             IN /\ Len(e.after) >= ms[n].index - 1 + Len(post)
                /\ Slice(e.after, 1, ms[n].index) = Slice(e.before, 1, ms[n].index)
                /\ Suffix(e.after, Len(post)) = post

(* C9 as stated: in the by-language merge, when the extractor reports no
   block of the new block's language in the current text, the new block is
   appended after a blank line and the text before it stays. *)
C9_OnlyExtractedBlocksReplaced ==
  variant = "lang" =>
    \A k \in DOMAIN log :
      LET e == log[k]
          existing == extractCodeBlocks(Str(e.before))
      IN (\A n \in DOMAIN existing : existing[n].lang # e.blk.lang) =>
           /\ ~e.replaced
           /\ e.after = e.before \o <<NL, NL>> \o newFullBlock(e.blk)

(* C10 as stated: in both handlers a prompt that is missing or no string is
   answered 400 before the model is invoked; absent or blank model output
   is answered 500 with no merge step and no merged text; a model call that
   raises is answered 500; the model is invoked at most once. *)
C10_ErrorPaths ==
  /\ (method = "POST" /\ (~Truthy(prompt) \/ prompt.type # "string")) =>
       /\ modelCalls = 0
       /\ pc = "done" => status = 400
  /\ (pc = "done" /\ modelCalls = 1 /\ IsBlank(OutputText(fullOutput))) =>
       /\ status = 500
       /\ log = <<>>
       /\ response = NoResponse
  /\ modelCalls <= 1

====
